---- MODULE Spec2Model ----
(***************************************************************************)
(* The lecture notebooks of the repository as state machines.              *)
(*                                                                         *)
(*  - C3_W2_Lab_1_cleaning_text: the step-by-step cleaning cells In[9] ..  *)
(*    In[20] act on the variable `sentence`; In[21] defines clean() and    *)
(*    calls it.  C3_W2_Lab_2_bioc_and_negbio defines clean() again.        *)
(*  - C3_W3_Lab_1_permutation_method: the cells load a model, a baseline   *)
(*    table, the outcomes and three permuted tables, and score each table. *)
(*                                                                         *)
(* A Python str is a sequence of one-character strings.  The characters    *)
(* are ASCII, and the Kelvin sign U+212A, a letter outside ASCII that      *)
(* str.lower() turns into the ASCII letter k; str.split() is modelled on   *)
(* ASCII whitespace.                                                       *)
(***************************************************************************)
EXTENDS Integers, Sequences, FiniteSets, TLC

VARIABLES
    raw,            \* the sentence handed to the notebook (In[9] / an element of `sentences`)
    cell,           \* the next cell to run
    sentence,       \* Lab 1: the variable the step cells rewrite
    tmp1,           \* Lab 1 In[13]: re.sub("\.\.", ".", sentence)
    tmp2,           \* Lab 1 In[13]: sentence.replace('..', '.')
    sentence_list,  \* Lab 1 In[19]: sentence.split()
    cleaned,        \* Lab 1 In[21]: clean(sentence), as printed by the loop
    cleaned_bioc    \* Lab 2 In[10]: the result of that notebook's clean()

textVars == <<raw, cell, sentence, tmp1, tmp2, sentence_list, cleaned, cleaned_bioc>>

VARIABLES
    wcell,          \* C3_W3_Lab_1_permutation_method: the next cell to run
    model_X,        \* In[2]: the pretrained model
    X_baseline,     \* In[3]: the patient data
    y,              \* In[3]: the patient outcomes
    X_permuted_1,   \* In[6]: the patient data, permuted at the Age column
    X_permuted_2,   \* In[8]
    X_permuted_3,   \* In[9]
    scores,         \* the risk scores of the last scoring
    c_index,        \* the c-index of the last scoring
    printed         \* the c-indices printed so far, in order

permVars == <<wcell, model_X, X_baseline, y, X_permuted_1, X_permuted_2, X_permuted_3,
              scores, c_index, printed>>

VARIABLES
    perf,           \* the baseline c-index, times 10^4
    perf_sx,        \* the c-indices with the feature shuffled, times 10^4, one per permutation
    drops,          \* the importance from each single permutation worked out so far
    importance,     \* I_x as the fraction num / den
    icell           \* what is worked out next: a row of the table, the formula, nothing

impVars == <<perf, perf_sx, drops, importance, icell>>

VARIABLES
    lcell,            \* C3_W2_Lab_3_prep_input_for_text_classification: the next cell to run
    q_tokens,         \* In[3]: the tokens of the question
    p_tokens,         \* In[3]: the tokens of the passage
    tokens,           \* In[4]: the combined token list
    token_ids,        \* In[5]: the list of ids; In[6], In[7]: the padded array
    unmasked,         \* In[8]: the ids as a (1, max_length, 1) array of floats
    token_mask,       \* In[8]: the mask the Masking layer computes
    padded_token_ids, \* In[9]: the padded list written out by hand; In[10], In[12]: as an array
    shapes_equal      \* In[11], In[13]: the results of the two shape comparisons

bertVars == <<lcell, q_tokens, p_tokens, tokens, token_ids, unmasked, token_mask,
              padded_token_ids, shapes_equal>>

VARIABLES
    bcell,        \* C3_W2_Lab_2_bioc_and_negbio: the next cell to run
    df,           \* In[1]: the table of reports
    sampled_df,   \* In[14]: the sampled rows
    collection,   \* In[3], In[4], In[16], In[24]: the documents of the collection
    negbio_pred,  \* In[25]: the table of predictions
    runs          \* how many times In[16] has been run

biocVars == <<bcell, df, sampled_df, collection, negbio_pred, runs>>

vars == <<textVars, permVars, impVars, bertVars, biocVars>>

\* a variable that no cell has assigned yet
None == <<"None">>

----------------------------------------------------------------------------
(* Characters *)

LowerCase ==
  <<"a", "b", "c", "d", "e", "f", "g", "h", "i", "j", "k", "l", "m",
    "n", "o", "p", "q", "r", "s", "t", "u", "v", "w", "x", "y", "z">>

UpperCase ==
  <<"A", "B", "C", "D", "E", "F", "G", "H", "I", "J", "K", "L", "M",
    "N", "O", "P", "Q", "R", "S", "T", "U", "V", "W", "X", "Y", "Z">>

Range(f) == {f[i] : i \in DOMAIN f}

\* the character class [a-zA-Z] of the slash pattern
Letters == Range(LowerCase) \cup Range(UpperCase)

\* the characters str.split() with no argument splits on
Whitespace == {" ", "\t", "\n", "\r", "\f"}

\* the character U+212A (KELVIN SIGN), written by its name
kelvin_sign == "KELVIN SIGN"

\* str.lower() on one character; the lowercase of U+212A is the ASCII k
LowerChar(c) ==
  IF c \in Range(UpperCase)
    THEN LowerCase[CHOOSE i \in DOMAIN UpperCase : UpperCase[i] = c]
    ELSE IF c = kelvin_sign THEN "k"
    ELSE c

----------------------------------------------------------------------------
(* The library calls clean() makes, each computed as the library does *)

\* sentence.lower()
Lower(s) == [i \in DOMAIN s |-> LowerChar(s[i])]

\* does pat occur in s at position i
MatchAt(s, pat, i) ==
  /\ i + Len(pat) - 1 <= Len(s)
  /\ \A k \in 1..Len(pat) : s[i + k - 1] = pat[k]

\* the concatenation of pieces[lo], ..., pieces[hi]
RECURSIVE Flatten(_, _, _)
Flatten(pieces, lo, hi) ==
  IF lo > hi THEN <<>>
  ELSE IF lo = hi THEN pieces[lo]
  ELSE LET mid == (lo + hi) \div 2
       IN  Flatten(pieces, lo, mid) \o Flatten(pieces, mid + 1, hi)

Min(S) == CHOOSE m \in S : \A k \in S : m <= k

\* the first position >= start where pat occurs in s, 0 if there is none
NextMatch(s, pat, start) ==
  LET hits == {j \in start..(Len(s) - Len(pat) + 1) : MatchAt(s, pat, j)}
  IN  IF hits = {} THEN 0 ELSE Min(hits)

\* re.sub with the pattern made greedy (pat followed by any more of its last
\* character): a whole run is one match
RECURSIVE ReSubGreedyFrom(_, _, _, _)
ReSubGreedyFrom(pat, repl, s, i) ==
  LET m == NextMatch(s, pat, i)
      last == Min({j \in (m + Len(pat) - 1)..Len(s) :
                     j = Len(s) \/ s[j + 1] # pat[Len(pat)]})
  IN  IF m = 0 THEN SubSeq(s, i, Len(s))
      ELSE SubSeq(s, i, m - 1) \o repl \o ReSubGreedyFrom(pat, repl, s, last + 1)

ReSubGreedy(pat, repl, s) == ReSubGreedyFrom(pat, repl, s, 1)

\* re.sub(pat, repl, s) for a pattern of literal characters: the scan goes left to
\* right, copies the characters before the next match, puts repl for the match and
\* goes on after it, so that matches never overlap
RECURSIVE ReSubFrom(_, _, _, _)
ReSubFrom(pat, repl, s, i) ==
  LET m == NextMatch(s, pat, i) IN
  IF m = 0 THEN SubSeq(s, i, Len(s))
  ELSE SubSeq(s, i, m - 1) \o repl \o ReSubFrom(pat, repl, s, m + Len(pat))

ReSub(pat, repl, s) == ReSubFrom(pat, repl, s, 1)

\* the pattern (?<=[a-zA-Z])/(?=[a-zA-Z]) at position i: a slash, with a letter
\* before it and a letter after it; the lookbehind and the lookahead consume nothing
SlashMatchAt(s, i) ==
  /\ s[i] = "/"
  /\ i > 1 /\ s[i - 1] \in Letters
  /\ i < Len(s) /\ s[i + 1] \in Letters

\* the slash rule without its lookahead, (?<=[a-zA-Z])/
ReSubSlashNoLookahead(repl, s) ==
  Flatten([i \in DOMAIN s |->
             IF s[i] = "/" /\ i > 1 /\ s[i - 1] \in Letters THEN repl ELSE <<s[i]>>],
          1, Len(s))

\* the slash rule with the pattern [a-zA-Z]/[a-zA-Z]: a match takes the two letters
\* with it, so the letter after a slash cannot be the letter before the next one
RECURSIVE ReSubSlashConsumingFrom(_, _, _, _)
ReSubSlashConsumingFrom(repl, s, i, lo) ==
  LET hits == {j \in lo..Len(s) : SlashMatchAt(s, j)} IN
  IF hits = {} THEN SubSeq(s, i, Len(s))
  ELSE SubSeq(s, i, Min(hits) - 1) \o repl
         \o ReSubSlashConsumingFrom(repl, s, Min(hits) + 1, Min(hits) + 3)

ReSubSlashConsuming(repl, s) == ReSubSlashConsumingFrom(repl, s, 1, 1)

\* re.sub('(?<=[a-zA-Z])/(?=[a-zA-Z])', repl, s): a match is one character wide and
\* the lookarounds read the subject string, so every matching slash is replaced
ReSubSlash(repl, s) ==
  Flatten([i \in DOMAIN s |-> IF SlashMatchAt(s, i) THEN repl ELSE <<s[i]>>], 1, Len(s))

\* s.replace(old, new, 1): only the first occurrence is replaced
ReplaceFirstOnly(s, old, new) ==
  LET at == NextMatch(s, old, 1) IN
  IF at = 0 THEN s
  ELSE SubSeq(s, 1, at - 1) \o new \o SubSeq(s, at + Len(old), Len(s))

\* s.replace(old, new): find the next occurrence of old, copy up to it, put new,
\* go on after it
RECURSIVE ReplaceFrom(_, _, _, _)
ReplaceFrom(s, old, new, start) ==
  LET at == NextMatch(s, old, start) IN
  IF at = 0 THEN SubSeq(s, start, Len(s))
  ELSE SubSeq(s, start, at - 1) \o new \o ReplaceFrom(s, old, new, at + Len(old))

Replace(s, old, new) == ReplaceFrom(s, old, new, 1)

\* the table with the comma left out
punctuation_spacer_periods == [key \in {"."} |-> <<key, " ">>]

\* str.maketrans({key: f"{key} " for key in ".,"})
punctuation_spacer == [key \in {".", ","} |-> <<key, " ">>]

\* s.translate(table): a character of the table becomes its entry, others stay
Translate(s, table) ==
  Flatten([i \in DOMAIN s |-> IF s[i] \in DOMAIN table THEN table[s[i]] ELSE <<s[i]>>],
          1, Len(s))

\* s.split(' '): the pieces between single spaces, other whitespace kept
SplitOnSpace(s) ==
  LET cuts == {0} \cup {i \in DOMAIN s : s[i] = " "} \cup {Len(s) + 1}
      cut(k) == CHOOSE i \in cuts : Cardinality({j \in cuts : j < i}) = k - 1
  IN  [k \in 1..(Cardinality(cuts) - 1) |-> SubSeq(s, cut(k) + 1, cut(k + 1) - 1)]

\* s.split(): the maximal runs of non-whitespace characters, in order
Split(s) ==
  LET starts == {i \in DOMAIN s : /\ s[i] \notin Whitespace
                                  /\ (i = 1 \/ s[i - 1] \in Whitespace)}
      start(k) == CHOOSE i \in starts : Cardinality({j \in starts : j < i}) = k - 1
      end(i) == Min({j \in i..Len(s) : j = Len(s) \/ s[j + 1] \in Whitespace})
  IN  [k \in 1..Cardinality(starts) |-> SubSeq(s, start(k), end(start(k)))]

\* sep.join(list)
Join(sep, list) ==
  Flatten([k \in 1..(2 * Len(list) - 1) |->
             IF k % 2 = 1 THEN list[(k + 1) \div 2] ELSE sep],
          1, 2 * Len(list) - 1)

----------------------------------------------------------------------------
(* clean(), as defined in each notebook *)

and_or == <<"a", "n", "d", "/", "o", "r">>
or == <<"o", "r">>
or_spaced == <<" ", "o", "r", " ">>
dotdot == <<".", ".">>
dot == <<".">>
space == <<" ">>

\* clean() with the slash rule before the and/or rule
clean_slash_first(s) ==
  LET lower_sentence == Lower(s)
      corrected_sentence_1 == ReSubSlash(or_spaced, lower_sentence)
      corrected_sentence == ReSub(and_or, or, corrected_sentence_1)
      clean_sentence_1 == Replace(corrected_sentence, dotdot, dot)
      clean_sentence_2 == Translate(clean_sentence_1, punctuation_spacer)
      clean_sentence == Join(space, Split(clean_sentence_2))
  IN  clean_sentence

\* clean() going on from `sentence` instead of lower_sentence
clean_unlowered(s) ==
  LET lower_sentence == Lower(s)
      corrected_sentence_1 == ReSub(and_or, or, s)
      corrected_sentence == ReSubSlash(or_spaced, corrected_sentence_1)
      clean_sentence_1 == Replace(corrected_sentence, dotdot, dot)
      clean_sentence_2 == Translate(clean_sentence_1, punctuation_spacer)
      clean_sentence == Join(space, Split(clean_sentence_2))
  IN  clean_sentence

\* clean() without its last step, the whitespace left as it is
clean_untrimmed(s) ==
  LET lower_sentence == Lower(s)
      corrected_sentence_1 == ReSub(and_or, or, lower_sentence)
      corrected_sentence == ReSubSlash(or_spaced, corrected_sentence_1)
      clean_sentence_1 == Replace(corrected_sentence, dotdot, dot)
      clean_sentence == Translate(clean_sentence_1, punctuation_spacer)
  IN  clean_sentence

\* clean() with the double periods replaced after the punctuation is spaced
clean_bioc_reordered(s) ==
  LET lower_sentence == Lower(s)
      corrected_sentence_1 == ReSub(and_or, or, lower_sentence)
      corrected_sentence == ReSubSlash(or_spaced, corrected_sentence_1)
      clean_sentence_1 == Translate(corrected_sentence, punctuation_spacer)
      clean_sentence_2 == Replace(clean_sentence_1, dotdot, dot)
      clean_sentence == Join(space, Split(clean_sentence_2))
  IN  clean_sentence

\* C3_W2_Lab_1_cleaning_text.py, In[21]
clean(s) ==
  LET lower_sentence == Lower(s)
      corrected_sentence_1 == ReSub(and_or, or, lower_sentence)
      corrected_sentence == ReSubSlash(or_spaced, corrected_sentence_1)
      clean_sentence_1 == Replace(corrected_sentence, dotdot, dot)
      clean_sentence_2 == Translate(clean_sentence_1, punctuation_spacer)
      clean_sentence == Join(space, Split(clean_sentence_2))
  IN  clean_sentence

\* C3_W2_Lab_2_bioc_and_negbio.py, In[10]
clean_bioc(s) ==
  LET lower_sentence == Lower(s)
      corrected_sentence_1 == ReSub(and_or, or, lower_sentence)
      corrected_sentence == ReSubSlash(or_spaced, corrected_sentence_1)
      clean_sentence_1 == Replace(corrected_sentence, dotdot, dot)
      clean_sentence_2 == Translate(clean_sentence_1, punctuation_spacer)
      clean_sentence == Join(space, Split(clean_sentence_2))
  IN  clean_sentence

----------------------------------------------------------------------------
(* The sentences of the notebook, and the bounded sentences the cells are run on *)

\* In[9], line 174: the sentence the step-by-step cells clean
sample_sentence ==
  <<" ", " ", " ", " ", " ", "B", "I", "B", "A", "S", "I", "L", "A", "R", " ", "O", "P",
    "A", "C", "I", "T", "I", "E", "S", ",", "l", "i", "k", "e", "l", "y", " ", "r", "e",
    "p", "r", "e", "s", "e", "n", "t", "i", "n", "g", " ", "b", "i", "l", "a", "t", "e",
    "r", "a", "l", " ", "p", "l", "e", "u", "r", "a", "l", " ", "e", "f", "f", "u", "s",
    "i", "o", "n", "s", " ", "w", "i", "t", "h", " ", "A", "T", "E", "L", "E", "C", "T",
    "A", "S", "I", "S", " ", " ", " ", "a", "n", "d", "/", "o", "r", " ", "P", "N", "E",
    "U", "M", "O", "N", "I", "A", "/", "b", "r", "o", "n", "c", "h", "o", "p", "n", "e",
    "u", "m", "o", "n", "i", "a", ".", ".">>

\* In[21], lines 340-343: the four sentences the loop cleans
sentences_1 ==
  <<" ", " ", " ", " ", " ", "B", "I", "B", "A", "S", "I", "L", "A", "R", " ", "O", "P",
    "A", "C", "I", "T", "I", "E", "S", ",", "l", "i", "k", "e", "l", "y", " ", "r", "e",
    "p", "r", "e", "s", "e", "n", "t", "i", "n", "g", " ", "b", "i", "l", "a", "t", "e",
    "r", "a", "l", " ", "p", "l", "e", "u", "r", "a", "l", " ", "e", "f", "f", "u", "s",
    "i", "o", "n", "s", " ", "w", "i", "t", "h", " ", "A", "T", "E", "L", "E", "C", "T",
    "A", "S", "I", "S", " ", " ", " ", "a", "n", "d", "/", "o", "r", " ", "P", "N", "E",
    "U", "M", "O", "N", "I", "A", ".", ".">>

sentences_2 ==
  <<"S", "m", "a", "l", "l", " ", "l", "e", "f", "t", " ", "p", "l", "e", "u", "r", "a",
    "l", " ", "e", "f", "f", "u", "s", "i", "o", "n", "/", "d", "e", "c", "r", "e", "a",
    "s", "e", "d", " ", "l", "u", "n", "g", " ", "v", "o", "l", "u", "m", "e", "s", " ",
    "b", "i", "l", "a", "t", "e", "r", "a", "l", "l", "y", ".", "l", "e", "f", "t", " ",
    "R", "e", "t", "r", "o", "C", "a", "r", "d", "i", "a", "c", " ", "A", "t", "e", "l",
    "e", "c", "t", "a", "s", "i", "s", ".">>

sentences_3 ==
  <<"P", "A", " ", " ", "a", "n", "d", " ", "l", "a", "t", "e", "r", "a", "l", " ", "v",
    "i", "e", "w", "s", " ", "o", "f", " ", "t", "h", "e", " ", "c", "h", "e", "s", "t",
    " ", "d", "e", "m", "o", "n", "s", "t", "r", "a", "t", "e", " ", " ", " ", "c", "l",
    "e", "a", "r", " ", "l", "u", "n", "g", "s", ",", "w", "i", "t", "h", " ", "N", "O",
    " ", "f", "o", "c", "a", "l", " ", "a", "i", "r", " ", "s", "p", "a", "c", "e", " ",
    "o", "p", "a", "c", "i", "t", "y", " ", "a", "n", "d", "/", "o", "r", " ", "p", "l",
    "e", "u", "r", "a", "l", " ", "e", "f", "f", "u", "s", "i", "o", "n", ".">>

sentences_4 ==
  <<"w", "o", "r", "r", "i", "s", "o", "m", "e", " ", "n", "o", "d", "u", "l", "e", " ",
    "i", "n", " ", "t", "h", "e", " ", "R", "i", "g", "h", "t", " ", "U", "p", "p", "e",
    "r", " ", " ", "l", "o", "b", "e", ".", "C", "A", "N", "N", "O", "T", " ", "e", "x",
    "c", "l", "u", "d", "e", " ", "n", "e", "o", "p", "l", "a", "s", "m", ".", ".">>

\* further sentences: a chain of slashes, and/or in capitals, runs of periods and a
\* tab, slashes next to digits, slashes next to the Kelvin sign
chain_sentence == <<"a", "/", "b", "/", "c">>

capitals_sentence == <<"x", " ", "A", "N", "D", "/", "O", "R", " ", "y">>

periods_sentence == <<"a", ".", ".", ".", "b", ".", ".", ".", ".", ".", "\t", "c", ".", ".">>

digits_sentence == <<"1", "/", "2", " ", "a", "/", "1", " ", "3", "/", "b", "/", "c">>

kelvin_sentence == <<"a", "/", kelvin_sign, " ", kelvin_sign, "/", "1", " ", "1", "/", "2">>

notebook_sentences ==
  {sample_sentence, sentences_1, sentences_2, sentences_3, sentences_4,
   chain_sentence, capitals_sentence, periods_sentence, digits_sentence,
   kelvin_sentence}

\* the pieces the bounded sentences are made of
Chunks ==
  { <<"a">>, <<"B">>, <<"/">>, <<".">>, <<",">>, <<" ">>, <<"\n">>,
    <<"A", "n", "d", "/", "O", "R">>, <<"a", "n", "d", "/">> }

\* the longest bounded sentence, in chunks
MaxChunks == 4

\* every concatenation of at most n chunks
RECURSIVE ChunkSentences(_)
ChunkSentences(n) ==
  IF n = 0 THEN {<<>>}
  ELSE LET shorter == ChunkSentences(n - 1)
       IN  shorter \cup {s \o c : s \in shorter, c \in Chunks}

Sentences == notebook_sentences \cup ChunkSentences(MaxChunks)

----------------------------------------------------------------------------
(* C3_W2_Lab_1_cleaning_text: the cells, in the order the notebook runs them *)

TextInit ==
  /\ raw \in Sentences
  /\ cell = "In9"
  /\ sentence = None
  /\ tmp1 = None
  /\ tmp2 = None
  /\ sentence_list = None
  /\ cleaned = None
  /\ cleaned_bioc = None

\* In[9]: sentence = "..."
In9 ==
  /\ cell = "In9"
  /\ sentence' = raw
  /\ cell' = "In10"
  /\ UNCHANGED <<raw, tmp1, tmp2, sentence_list, cleaned, cleaned_bioc>>
  /\ UNCHANGED <<permVars, impVars, bertVars, biocVars>>

\* In[10]: sentence = sentence.lower()
In10 ==
  /\ cell = "In10"
  /\ sentence' = Lower(sentence)
  /\ cell' = "In11"
  /\ UNCHANGED <<raw, tmp1, tmp2, sentence_list, cleaned, cleaned_bioc>>
  /\ UNCHANGED <<permVars, impVars, bertVars, biocVars>>

\* In[11]: sentence = re.sub('and/or', 'or', sentence)
In11 ==
  /\ cell = "In11"
  /\ sentence' = ReSub(and_or, or, sentence)
  /\ cell' = "In12"
  /\ UNCHANGED <<raw, tmp1, tmp2, sentence_list, cleaned, cleaned_bioc>>
  /\ UNCHANGED <<permVars, impVars, bertVars, biocVars>>

\* In[12]: sentence = re.sub('(?<=[a-zA-Z])/(?=[a-zA-Z])', ' or ', sentence)
In12 ==
  /\ cell = "In12"
  /\ sentence' = ReSubSlash(or_spaced, sentence)
  /\ cell' = "In13"
  /\ UNCHANGED <<raw, tmp1, tmp2, sentence_list, cleaned, cleaned_bioc>>
  /\ UNCHANGED <<permVars, impVars, bertVars, biocVars>>

\* In[13]: tmp1 = re.sub("\.\.", ".", sentence); tmp2 = sentence.replace('..','.')
In13 ==
  /\ cell = "In13"
  /\ tmp1' = ReSub(dotdot, dot, sentence)
  /\ tmp2' = Replace(sentence, dotdot, dot)
  /\ cell' = "In14"
  /\ UNCHANGED <<raw, sentence, sentence_list, cleaned, cleaned_bioc>>
  /\ UNCHANGED <<permVars, impVars, bertVars, biocVars>>

\* In[14]: sentence = sentence.replace("..", ".")
In14 ==
  /\ cell = "In14"
  /\ sentence' = Replace(sentence, dotdot, dot)
  /\ cell' = "In18"
  /\ UNCHANGED <<raw, tmp1, tmp2, sentence_list, cleaned, cleaned_bioc>>
  /\ UNCHANGED <<permVars, impVars, bertVars, biocVars>>

\* In[17], In[18]: sentence = sentence.translate(punctuation_spacer)
In18 ==
  /\ cell = "In18"
  /\ sentence' = Translate(sentence, punctuation_spacer)
  /\ cell' = "In19"
  /\ UNCHANGED <<raw, tmp1, tmp2, sentence_list, cleaned, cleaned_bioc>>
  /\ UNCHANGED <<permVars, impVars, bertVars, biocVars>>

\* In[19]: sentence_list = sentence.split()
In19 ==
  /\ cell = "In19"
  /\ sentence_list' = Split(sentence)
  /\ cell' = "In20"
  /\ UNCHANGED <<raw, sentence, tmp1, tmp2, cleaned, cleaned_bioc>>
  /\ UNCHANGED <<permVars, impVars, bertVars, biocVars>>

\* In[20]: sentence = ' '.join(sentence_list)
In20 ==
  /\ cell = "In20"
  /\ sentence' = Join(space, sentence_list)
  /\ cell' = "In21"
  /\ UNCHANGED <<raw, tmp1, tmp2, sentence_list, cleaned, cleaned_bioc>>
  /\ UNCHANGED <<permVars, impVars, bertVars, biocVars>>

\* In[21]: for n, sentence in enumerate(sentences): ... clean(sentence)
\* (the loop variable rebinds `sentence`)
In21 ==
  /\ cell = "In21"
  /\ sentence' = raw
  /\ cleaned' = clean(raw)
  /\ cell' = "Lab2In10"
  /\ UNCHANGED <<raw, tmp1, tmp2, sentence_list, cleaned_bioc>>
  /\ UNCHANGED <<permVars, impVars, bertVars, biocVars>>

\* C3_W2_Lab_2_bioc_and_negbio In[10]: that notebook's clean() on the same sentence
Lab2In10 ==
  /\ cell = "Lab2In10"
  /\ cleaned_bioc' = clean_bioc(raw)
  /\ cell' = "done"
  /\ UNCHANGED <<raw, sentence, tmp1, tmp2, sentence_list, cleaned>>
  /\ UNCHANGED <<permVars, impVars, bertVars, biocVars>>

\* the text notebooks before their first cell has run
TextIdle ==
  /\ raw = None
  /\ cell = "off"
  /\ sentence = None
  /\ tmp1 = None
  /\ tmp2 = None
  /\ sentence_list = None
  /\ cleaned = None
  /\ cleaned_bioc = None

----------------------------------------------------------------------------
(* C3_W3_Lab_1_permutation_method: the tables, the model and the c-index *)

\* the rows of the patient data
NumRows == 3

\* the columns of the patient data (In[2]: age, systolic and diastolic blood
\* pressure, cholesterol)
Columns == {"Age", "Systolic_BP", "Diastolic_BP", "Cholesterol"}

\* the values of the Age column
AgeValues == {0, 1}

\* ./data/X_data_normalized.csv read with index_col=0: one record per row, `index`
\* the row label
BaselineTables ==
  {[i \in 1..NumRows |->
      [index |-> 10 * i, Age |-> age[i], Systolic_BP |-> i % 2,
       Diastolic_BP |-> NumRows - i, Cholesterol |-> (i + 1) % 2]] :
     age \in [1..NumRows -> AgeValues]}

\* ./data/y_data_test.csv: one outcome per row; the c-index needs a permissible pair
Outcomes == {o \in [1..NumRows -> {0, 1}] : \E i, j \in 1..NumRows : o[i] # o[j]}

\* ./pretained_model/C2M1_model.model: a risk score that grows with the weighted features
Models ==
  {[Age |-> 2, Systolic_BP |-> 1, Diastolic_BP |-> 0, Cholesterol |-> 0],
   [Age |-> 1, Systolic_BP |-> 0, Diastolic_BP |-> 1, Cholesterol |-> 1]}

\* model.predict_proba(X)[:, 1]: the risk score of each row of X
predict_proba(model, X) ==
  [i \in DOMAIN X |->
     model.Age * X[i].Age + model.Systolic_BP * X[i].Systolic_BP
       + model.Diastolic_BP * X[i].Diastolic_BP + model.Cholesterol * X[i].Cholesterol]

\* the c-indices are kept times 10^4 (they are printed with four decimals)
Scale == 10000

\* cindex(y.values, scores) = (concordant + 0.5 * ties) / permissible, times Scale
cindex(outcomes, risk) ==
  LET pairs == {<<i, j>> \in (DOMAIN outcomes) \X (DOMAIN outcomes) : i < j}
      permissible == {pr \in pairs : outcomes[pr[1]] # outcomes[pr[2]]}
      concordant == {pr \in permissible :
                       \/ risk[pr[1]] > risk[pr[2]] /\ outcomes[pr[1]] > outcomes[pr[2]]
                       \/ risk[pr[1]] < risk[pr[2]] /\ outcomes[pr[1]] < outcomes[pr[2]]}
      ties == {pr \in permissible : risk[pr[1]] = risk[pr[2]]}
  IN  (Scale * (2 * Cardinality(concordant) + Cardinality(ties)))
        \div (2 * Cardinality(permissible))

\* the ways to shuffle n rows
Shuffles(n) == {p \in [1..n -> 1..n] : \A i, j \in 1..n : p[i] = p[j] => i = j}

\* a table with its rows shuffled by p, labels and all
ShuffleRows(X, p) == [i \in DOMAIN X |-> X[p[i]]]

\* a table with the column Age shuffled by p: row i gets the Age of row p[i]
ShuffleAge(X, p) == [i \in DOMAIN X |-> [X[i] EXCEPT !.Age = X[p[i]].Age]]

\* ./data/X_data_normalized_perm<k>.csv: the baseline table permuted at the Age column
PermutedTables(X) == {ShuffleAge(X, p) : p \in Shuffles(Len(X))}

PermInit ==
  /\ wcell = "In2"
  /\ model_X = None
  /\ X_baseline = None
  /\ y = None
  /\ X_permuted_1 = None
  /\ X_permuted_2 = None
  /\ X_permuted_3 = None
  /\ scores = None
  /\ c_index = None
  /\ printed = <<>>

\* the permutation notebook before its first cell has run
PermIdle ==
  /\ wcell = "off"
  /\ model_X = None
  /\ X_baseline = None
  /\ y = None
  /\ X_permuted_1 = None
  /\ X_permuted_2 = None
  /\ X_permuted_3 = None
  /\ scores = None
  /\ c_index = None
  /\ printed = <<>>

\* In[2]: model_X = pickle.load(...)
W3In2 ==
  /\ wcell = "In2"
  /\ model_X' \in Models
  /\ wcell' = "In3"
  /\ UNCHANGED <<X_baseline, y, X_permuted_1, X_permuted_2, X_permuted_3,
                 scores, c_index, printed>>
  /\ UNCHANGED <<textVars, impVars, bertVars, biocVars>>

\* In[3]: X_baseline = pd.read_csv(...); y = pd.read_csv(...)
W3In3 ==
  /\ wcell = "In3"
  /\ X_baseline' \in BaselineTables
  /\ y' \in Outcomes
  /\ wcell' = "In5"
  /\ UNCHANGED <<model_X, X_permuted_1, X_permuted_2, X_permuted_3,
                 scores, c_index, printed>>
  /\ UNCHANGED <<textVars, impVars, bertVars, biocVars>>

\* scores = model_X.predict_proba(X)[:, 1]; c_index = cindex(y.values, scores); print
Score(X) ==
  /\ scores' = predict_proba(model_X, X)
  /\ c_index' = cindex(y, scores')
  /\ printed' = Append(printed, c_index')

\* In[5]: the baseline c-index
W3In5 ==
  /\ wcell = "In5"
  /\ Score(X_baseline)
  /\ wcell' = "In6"
  /\ UNCHANGED <<model_X, X_baseline, y, X_permuted_1, X_permuted_2, X_permuted_3>>
  /\ UNCHANGED <<textVars, impVars, bertVars, biocVars>>

\* In[6] with the Age column shuffled in place: X_permuted_1 is X_baseline itself
W3In6InPlace ==
  /\ wcell = "In6"
  /\ X_baseline' \in PermutedTables(X_baseline)
  /\ X_permuted_1' = X_baseline'
  /\ wcell' = "In7"
  /\ UNCHANGED <<model_X, y, X_permuted_2, X_permuted_3, scores, c_index, printed>>
  /\ UNCHANGED <<textVars, impVars, bertVars, biocVars>>

\* In[6]: X_permuted_1 = pd.read_csv('./data/X_data_normalized_perm1.csv', index_col=0)
W3In6 ==
  /\ wcell = "In6"
  /\ X_permuted_1' \in PermutedTables(X_baseline)
  /\ wcell' = "In7"
  /\ UNCHANGED <<model_X, X_baseline, y, X_permuted_2, X_permuted_3,
                 scores, c_index, printed>>
  /\ UNCHANGED <<textVars, impVars, bertVars, biocVars>>

\* In[7]: the c-index for the 1st permutation
W3In7 ==
  /\ wcell = "In7"
  /\ Score(X_permuted_1)
  /\ wcell' = "In8"
  /\ UNCHANGED <<model_X, X_baseline, y, X_permuted_1, X_permuted_2, X_permuted_3>>
  /\ UNCHANGED <<textVars, impVars, bertVars, biocVars>>

\* In[8]: X_permuted_2 = pd.read_csv('./data/X_data_normalized_perm2.csv', index_col=0)
W3In8 ==
  /\ wcell = "In8"
  /\ X_permuted_2' \in PermutedTables(X_baseline)
  /\ wcell' = "In9"
  /\ UNCHANGED <<model_X, X_baseline, y, X_permuted_1, X_permuted_3,
                 scores, c_index, printed>>
  /\ UNCHANGED <<textVars, impVars, bertVars, biocVars>>

\* In[9]: X_permuted_3 = pd.read_csv('./data/X_data_normalized_perm3.csv', index_col=0)
W3In9 ==
  /\ wcell = "In9"
  /\ X_permuted_3' \in PermutedTables(X_baseline)
  /\ wcell' = "In10"
  /\ UNCHANGED <<model_X, X_baseline, y, X_permuted_1, X_permuted_2,
                 scores, c_index, printed>>
  /\ UNCHANGED <<textVars, impVars, bertVars, biocVars>>

\* In[10]: the c-index for the 2nd permutation
W3In10 ==
  /\ wcell = "In10"
  /\ Score(X_permuted_2)
  /\ wcell' = "In11"
  /\ UNCHANGED <<model_X, X_baseline, y, X_permuted_1, X_permuted_2, X_permuted_3>>
  /\ UNCHANGED <<textVars, impVars, bertVars, biocVars>>

\* In[11]: the c-index for the 3rd permutation
W3In11 ==
  /\ wcell = "In11"
  /\ Score(X_permuted_3)
  /\ wcell' = "done"
  /\ UNCHANGED <<model_X, X_baseline, y, X_permuted_1, X_permuted_2, X_permuted_3>>
  /\ UNCHANGED <<textVars, impVars, bertVars, biocVars>>

----------------------------------------------------------------------------
(* C3_W3_Lab_1_permutation_method: the importance of a feature *)

\* the c-indices the importance is worked out for: the four of the notebook's table
\* and the ends and the middle of the scale
CIndexValues == {0, 5000, 6428, 6554, 6749, 8182, 10000}

\* the most permutations of a feature
MaxPermutations == 3

Abs(x) == IF x < 0 THEN -x ELSE x

RECURSIVE Sum(_)
Sum(xs) == IF xs = <<>> THEN 0 ELSE Head(xs) + Sum(Tail(xs))

\* the importance without the absolute value
ImportanceSigned(p, p_sx) ==
  [num |-> Len(p_sx) * p - Sum(p_sx), den |-> Len(p_sx)]

\* I_x = |perf - perf_x| with perf_x = (1/n) * sum of perf_sx, as the fraction
\* |n * perf - sum| / n
Importance(p, p_sx) ==
  [num |-> Abs(Len(p_sx) * p - Sum(p_sx)), den |-> Len(p_sx)]

\* the importance from one permutation: abs(baseline - shuffled)
SingleImportance(p, p_s) == Abs(p - p_s)

ImpInit ==
  /\ perf \in CIndexValues
  /\ perf_sx \in UNION {[1..n -> CIndexValues] : n \in 1..MaxPermutations}
  /\ drops = <<>>
  /\ importance = None
  /\ icell = "table"

\* the importance notes before any c-index is known
ImpIdle ==
  /\ perf = None
  /\ perf_sx = None
  /\ drops = None
  /\ importance = None
  /\ icell = "off"

\* a row of the table: the importance from the next permutation alone
TableRow ==
  /\ icell = "table"
  /\ drops' = Append(drops, SingleImportance(perf, perf_sx[Len(drops) + 1]))
  /\ icell' = IF Len(drops') = Len(perf_sx) THEN "formula" ELSE "table"
  /\ UNCHANGED <<perf, perf_sx, importance>>
  /\ UNCHANGED <<textVars, permVars, bertVars, biocVars>>

\* the formula, applied to all the permutations
ApplyFormula ==
  /\ icell = "formula"
  /\ importance' = Importance(perf, perf_sx)
  /\ icell' = "done"
  /\ UNCHANGED <<perf, perf_sx, drops>>
  /\ UNCHANGED <<textVars, permVars, bertVars, biocVars>>

----------------------------------------------------------------------------
(* C3_W2_Lab_3_prep_input_for_text_classification: tokens, ids, padding, mask *)

\* In[3]: the token lists of the notebook
notebook_q_tokens == <<"How", "old", "is", "the", "patient", "?">>

notebook_p_tokens ==
  <<"The", "patient", "is", "a", "64", "year", "old", "male", "named", "Bob", ".",
    "He", "has", "no", "history", "of", "chronic", "spine", "conditions", "but", "is",
    "showing", "mild", "de", "##gene", "##rative", "changes", "in", "the", "l", "##umba",
    "##r", "spine", "and", "old", "right", "rib", "fracture", "##s", ".">>

classification_token == "[CLS]"

separator_token == "[SEP]"

\* In[5]: the ids of the notebook
notebook_token_ids ==
  <<101, 1731, 1385, 1110, 1103, 5351, 136, 102, 1109, 5351, 1110, 170, 3324,
    1214, 1385, 2581, 1417, 3162, 119, 1124, 1144, 1185, 1607, 1104, 13306, 8340,
    2975, 1133, 1110, 4000, 10496, 1260, 27054, 15306, 2607, 1107, 1103, 181, 25509,
    1197, 8340, 1105, 1385, 1268, 23298, 22869, 1116, 119>>

\* In[9]: the padded ids, written out by hand
notebook_padded_token_ids ==
  <<101, 1731, 1385, 1110, 1103, 5351, 136, 102, 1109,
    5351, 1110, 170, 3324, 1214, 1385, 2581, 1417, 3162,
    119, 1124, 1144, 1185, 1607, 1104, 13306, 8340, 2975,
    1133, 1110, 4000, 10496, 1260, 27054, 15306, 2607, 1107,
    1103, 181, 25509, 1197, 8340, 1105, 1385, 1268, 23298,
    22869, 1116, 119, 0, 0, 0, 0, 0, 0,
    0, 0, 0, 0, 0, 0>>

\* In[6]: max_length = 60
max_length == 60

\* the longest of the short token and id lists
MaxTokens == 2

\* every sequence over S of length at most n
SeqsUpTo(S, n) == UNION {[1..k -> S] : k \in 0..n}

\* the lists s[1..k]
Prefixes(s) == {SubSeq(s, 1, k) : k \in 0..Len(s)}

\* the question and passage token lists the cells are run on
QuestionLists == {notebook_q_tokens} \cup SeqsUpTo({"old", "?"}, MaxTokens)

PassageLists == {notebook_p_tokens} \cup SeqsUpTo({"Bob", "."}, MaxTokens)

\* the id lists the cells are run on: as long as two passages, or short; 0 is the id
\* of a token ([PAD]) as well as the padding value
IdLists ==
  Prefixes(notebook_token_ids \o notebook_token_ids) \cup SeqsUpTo({0, 119}, MaxTokens)

\* pad_sequences with padding="pre", the default
pad_sequences_pre(sequences, maxlen) ==
  [shape |-> <<Len(sequences), maxlen>>,
   values |-> [r \in DOMAIN sequences |->
                 LET seq == sequences[r]
                     trunc == IF Len(seq) > maxlen
                                THEN SubSeq(seq, Len(seq) - maxlen + 1, Len(seq))
                                ELSE seq
                 IN  [i \in 1..(maxlen - Len(trunc)) |-> 0] \o trunc]]

\* pad_sequences(sequences, padding="post", maxlen=maxlen): a (len(sequences), maxlen)
\* array; a longer sequence loses its first entries (truncating="pre", the default),
\* a shorter one is filled with 0 after its last entry
pad_sequences(sequences, maxlen) ==
  [shape |-> <<Len(sequences), maxlen>>,
   values |-> [r \in DOMAIN sequences |->
                 LET seq == sequences[r]
                     trunc == IF Len(seq) > maxlen
                                THEN SubSeq(seq, Len(seq) - maxlen + 1, Len(seq))
                                ELSE seq
                 IN  trunc \o [i \in 1..(maxlen - Len(trunc)) |-> 0]]]

\* tf.convert_to_tensor of a plain list
convert_to_tensor(list) == [shape |-> <<Len(list)>>, values |-> list]

\* tf.expand_dims(t, 0)
expand_dims_first(t) == [shape |-> <<1>> \o t.shape, values |-> <<t.values>>]

\* tf.cast(tf.tile(tf.expand_dims(t, axis=-1), [1, 1, 1]), tf.float32) of a 2-D array:
\* every entry in a list of its own, once along each axis
expand_dims_last(t) ==
  [shape |-> t.shape \o <<1>>,
   values |-> [r \in DOMAIN t.values |-> [i \in DOMAIN t.values[r] |-> <<t.values[r][i]>>]]]

\* a Masking layer whose mask_value no id equals
keras_mask_unset(t) ==
  [shape |-> SubSeq(t.shape, 1, 2),
   values |-> [r \in DOMAIN t.values |-> [i \in DOMAIN t.values[r] |->
                 \E k \in DOMAIN t.values[r][i] : t.values[r][i][k] # -1]]]

\* layers.Masking()(t)._keras_mask with mask_value 0.0: a step is kept when any of
\* its features differs from 0
keras_mask(t) ==
  [shape |-> SubSeq(t.shape, 1, 2),
   values |-> [r \in DOMAIN t.values |-> [i \in DOMAIN t.values[r] |->
                 \E k \in DOMAIN t.values[r][i] : t.values[r][i][k] # 0]]]

BertInit ==
  /\ lcell = "In3"
  /\ q_tokens = None
  /\ p_tokens = None
  /\ tokens = None
  /\ token_ids = None
  /\ unmasked = None
  /\ token_mask = None
  /\ padded_token_ids = None
  /\ shapes_equal = <<>>

\* the notebook before its first cell has run
BertIdle ==
  /\ lcell = "off"
  /\ q_tokens = None
  /\ p_tokens = None
  /\ tokens = None
  /\ token_ids = None
  /\ unmasked = None
  /\ token_mask = None
  /\ padded_token_ids = None
  /\ shapes_equal = <<>>

\* In[3]: q_tokens = [...]; p_tokens = [...]
Lab3In3 ==
  /\ lcell = "In3"
  /\ q_tokens' \in QuestionLists
  /\ p_tokens' \in PassageLists
  /\ lcell' = "In4"
  /\ UNCHANGED <<tokens, token_ids, unmasked, token_mask, padded_token_ids, shapes_equal>>
  /\ UNCHANGED <<textVars, permVars, impVars, biocVars>>

\* In[4] with the separator appended after the passage
Lab3In4SeparatorLast ==
  /\ lcell = "In4"
  /\ tokens' = <<classification_token>> \o q_tokens \o p_tokens \o <<separator_token>>
  /\ lcell' = "In5"
  /\ UNCHANGED <<q_tokens, p_tokens, token_ids, unmasked, token_mask, padded_token_ids,
                 shapes_equal>>
  /\ UNCHANGED <<textVars, permVars, impVars, biocVars>>

\* In[4]: tokens = []; append(classification_token); extend(q_tokens);
\* append(separator_token); extend(p_tokens)
Lab3In4 ==
  /\ lcell = "In4"
  /\ tokens' = (Append(Append(<<>>, classification_token) \o q_tokens, separator_token))
                 \o p_tokens
  /\ lcell' = "In5"
  /\ UNCHANGED <<q_tokens, p_tokens, token_ids, unmasked, token_mask, padded_token_ids,
                 shapes_equal>>
  /\ UNCHANGED <<textVars, permVars, impVars, biocVars>>

\* In[5]: token_ids = [...]
Lab3In5 ==
  /\ lcell = "In5"
  /\ token_ids' \in IdLists
  /\ lcell' = "In6"
  /\ UNCHANGED <<q_tokens, p_tokens, tokens, unmasked, token_mask, padded_token_ids,
                 shapes_equal>>
  /\ UNCHANGED <<textVars, permVars, impVars, biocVars>>

\* In[6], In[7]: token_ids = pad_sequences([token_ids], padding="post", maxlen=max_length);
\* token_ids = tf.convert_to_tensor(token_ids)
Lab3In6 ==
  /\ lcell = "In6"
  /\ token_ids' = pad_sequences(<<token_ids>>, max_length)
  /\ lcell' = "In8"
  /\ UNCHANGED <<q_tokens, p_tokens, tokens, unmasked, token_mask, padded_token_ids,
                 shapes_equal>>
  /\ UNCHANGED <<textVars, permVars, impVars, biocVars>>

\* In[8]: unmasked = ...; masked = masking_layer(unmasked); token_mask = masked._keras_mask
Lab3In8 ==
  /\ lcell = "In8"
  /\ unmasked' = expand_dims_last(token_ids)
  /\ token_mask' = keras_mask(unmasked')
  /\ lcell' = "In9"
  /\ UNCHANGED <<q_tokens, p_tokens, tokens, token_ids, padded_token_ids, shapes_equal>>
  /\ UNCHANGED <<textVars, permVars, impVars, biocVars>>

\* In[9], In[10], In[11]: padded_token_ids = [...]; tf.convert_to_tensor;
\* padded_token_ids.shape == token_ids.shape
Lab3In9 ==
  /\ lcell = "In9"
  /\ padded_token_ids' = convert_to_tensor(notebook_padded_token_ids)
  /\ shapes_equal' = Append(shapes_equal, padded_token_ids'.shape = token_ids.shape)
  /\ lcell' = "In12"
  /\ UNCHANGED <<q_tokens, p_tokens, tokens, token_ids, unmasked, token_mask>>
  /\ UNCHANGED <<textVars, permVars, impVars, biocVars>>

\* In[12], In[13]: padded_token_ids = tf.expand_dims(padded_token_ids, 0);
\* padded_token_ids.shape == token_ids.shape
Lab3In12 ==
  /\ lcell = "In12"
  /\ padded_token_ids' = expand_dims_first(padded_token_ids)
  /\ shapes_equal' = Append(shapes_equal, padded_token_ids'.shape = token_ids.shape)
  /\ lcell' = "done"
  /\ UNCHANGED <<q_tokens, p_tokens, tokens, token_ids, unmasked, token_mask>>
  /\ UNCHANGED <<textVars, permVars, impVars, biocVars>>

----------------------------------------------------------------------------
(* C3_W2_Lab_2_bioc_and_negbio: the collection of documents *)

\* the rows of the table read in In[1]
DfRows == 3

\* the rows df.sample draws, 50 in the notebook
SampleSize == 2

\* how many times In[16] is run
MaxRuns == 2

\* the report impressions of the table
ReportImpressions == {capitals_sentence, periods_sentence, kelvin_sentence}

\* pd.read_csv: the rows carry the labels 0, 1, ... in the order of the file
DataFrames ==
  {[i \in 1..DfRows |-> [label |-> i - 1, report |-> reports[i]]] :
     reports \in [1..DfRows -> ReportImpressions]}

\* df.sample(n): n different rows of table, in any order, each with its label
Sample(table, n) ==
  {[k \in 1..n |-> table[pick[k]]] :
     pick \in {f \in [1..n -> DOMAIN table] : \A a, b \in 1..n : a # b => f[a] # f[b]}}

Digits == <<"0", "1", "2", "3", "4", "5", "6", "7", "8", "9">>

\* str(n) of an integer n >= 0
RECURSIVE str(_)
str(n) == IF n < 10 THEN <<Digits[n + 1]>> ELSE str(n \div 10) \o <<Digits[(n % 10) + 1]>>

\* string.printable, as far as the characters of the reports go
printable_chars ==
  Letters \cup Range(Digits) \cup Whitespace \cup {"/", ".", ",", "?", "!", ":", ";", "-"}

\* text2bioc.text2document(id, text): a document with the id and one passage of the
\* printable characters of text, "\r\n" written as "\n"
text2document(id, text) ==
  [id |-> id,
   text |-> Replace(SelectSeq(text, LAMBDA c : c \in printable_chars),
                    <<"\r", "\n">>, <<"\n">>),
   infons |-> <<>>]

\* table["Report Impression"]: the reports of the rows, in their order
report_impression(table) == [n \in DOMAIN table |-> table[n].report]

\* for i, text in enumerate(texts): the documents of the first n turns of the loop,
\* in its order; i counts from 0
RECURSIVE documents_of(_, _)
documents_of(texts, n) ==
  IF n = 0 THEN <<>>
  ELSE Append(documents_of(texts, n - 1), text2document(str(n - 1), texts[n]))

\* clean(report) for each report
cleaned_reports(table) ==
  [n \in DOMAIN table |-> clean_bioc(report_impression(table)[n])]

\* get_bioc_collection adding to the collection of the notebook
get_bioc_collection_global(table) ==
  collection \o documents_of(cleaned_reports(table), Len(table))

\* get_bioc_collection(df): a new collection, filled by the loop with the cleaned
\* reports
get_bioc_collection(table) ==
  LET new == <<>>
  IN  new \o documents_of(cleaned_reports(table), Len(table))

BiocInit ==
  /\ bcell = "In1"
  /\ df = None
  /\ sampled_df = None
  /\ collection = None
  /\ negbio_pred = None
  /\ runs = 0

\* the notebook before its first cell has run
BiocIdle ==
  /\ bcell = "off"
  /\ df = None
  /\ sampled_df = None
  /\ collection = None
  /\ negbio_pred = None
  /\ runs = 0

\* In[1]: df = pd.read_csv(...)
Lab2In1 ==
  /\ bcell = "In1"
  /\ df' \in DataFrames
  /\ bcell' = "In3"
  /\ UNCHANGED <<sampled_df, collection, negbio_pred, runs>>
  /\ UNCHANGED <<textVars, permVars, impVars, bertVars>>

\* In[3]: collection = bioc.BioCCollection()
Lab2In3 ==
  /\ bcell = "In3"
  /\ collection' = <<>>
  /\ bcell' = "In4"
  /\ UNCHANGED <<df, sampled_df, negbio_pred, runs>>
  /\ UNCHANGED <<textVars, permVars, impVars, bertVars>>

\* In[4]: the loop over df["Report Impression"], adding to the collection of In[3]
Lab2In4 ==
  /\ bcell = "In4"
  /\ collection' = collection \o documents_of(report_impression(df), Len(df))
  /\ bcell' = "In14"
  /\ UNCHANGED <<df, sampled_df, negbio_pred, runs>>
  /\ UNCHANGED <<textVars, permVars, impVars, bertVars>>

\* In[14]: sampled_df = df.sample(50); the cell may be run again
Lab2In14 ==
  /\ \/ bcell = "In14"
     \/ bcell = "In17" /\ runs < MaxRuns
  /\ sampled_df' \in Sample(df, SampleSize)
  /\ bcell' = "In16"
  /\ UNCHANGED <<df, collection, negbio_pred, runs>>
  /\ UNCHANGED <<textVars, permVars, impVars, bertVars>>

\* In[16]: collection = get_bioc_collection(sampled_df); the cell may be run again
Lab2In16 ==
  /\ \/ bcell = "In16"
     \/ bcell = "In17" /\ runs < MaxRuns
  /\ collection' = get_bioc_collection(sampled_df)
  /\ runs' = runs + 1
  /\ bcell' = "In17"
  /\ UNCHANGED <<df, sampled_df, negbio_pred>>
  /\ UNCHANGED <<textVars, permVars, impVars, bertVars>>

----------------------------------------------------------------------------
(* C3_W2_Lab_2_bioc_and_negbio: the table of predictions *)

\* In[11]: two of the CATEGORIES
Edema == <<"E", "d", "e", "m", "a">>

Fracture == <<"F", "r", "a", "c", "t", "u", "r", "e">>

CATEGORIES == {Edema, Fracture}

\* the key of a category in the infons of a document: 'CheXpert/' and the category
CheXpert == <<"C", "h", "e", "X", "p", "e", "r", "t", "/">>

infon_key(category) == CheXpert \o category

\* the values the aggregator gives a category
Labels == {"Positive", "Negative", "Uncertain"}

\* the infons the pipeline can leave in a document: a label for some of the categories
Infons ==
  UNION {[{infon_key(c) : c \in found} -> Labels] : found \in SUBSET CATEGORIES}

\* the values of Python that a cell of the table holds besides the labels
True == "True"

False == "False"

NaN == "NaN"

\* pd.DataFrame(): no columns, no rows
DataFrame == [columns |-> {}, rows |-> <<>>]

\* frame.append(dictionary, ignore_index=True): the columns of the dictionary are
\* added to the columns of frame, and one row is added after its rows; a cell with no
\* value, in the old rows or in the new one, is NaN
append(frame, dictionary) ==
  LET columns == frame.columns \cup DOMAIN dictionary
      old == [r \in DOMAIN frame.rows |->
                [c \in columns |-> IF c \in frame.columns THEN frame.rows[r][c] ELSE NaN]]
      row == [c \in columns |-> IF c \in DOMAIN dictionary THEN dictionary[c] ELSE NaN]
  IN  [columns |-> columns, rows |-> Append(old, row)]

\* frame.replace(old, new): every cell equal to old becomes new
replace(frame, old, new) ==
  [columns |-> frame.columns,
   rows |-> [r \in DOMAIN frame.rows |->
               [c \in frame.columns |->
                  IF frame.rows[r][c] = old THEN new ELSE frame.rows[r][c]]]]

\* frame.fillna(value): every NaN cell becomes value
fillna(frame, value) == replace(frame, NaN, value)

\* key[9:]
key_from_9(key) == SubSeq(key, 10, Len(key))

\* dictionary = {}; for key, val in doc.infons.items(): dictionary[key[9:]] = val
dictionary_of(infons) ==
  [column \in {key_from_9(key) : key \in DOMAIN infons} |->
     infons[CHOOSE key \in DOMAIN infons : key_from_9(key) = column]]

\* the loop over collection.documents: one append per document, in their order
RECURSIVE rows_of(_, _)
rows_of(documents, n) ==
  IF n = 0 THEN DataFrame
  ELSE append(rows_of(documents, n - 1), dictionary_of(documents[n].infons))

\* the replacements with "Uncertain" counted as a finding
replace_labels_uncertain_true(frame) ==
  fillna(replace(replace(replace(frame, "Positive", True), "Negative", False),
                 "Uncertain", True), False)

\* .replace("Positive", True).replace("Negative", False).replace("Uncertain", False)
\* .fillna(False)
replace_labels(frame) ==
  fillna(replace(replace(replace(frame, "Positive", True), "Negative", False),
                 "Uncertain", False), False)

\* the table of In[1]
first_df ==
  [i \in 1..DfRows |->
     [label |-> i - 1,
      report |-> <<capitals_sentence, periods_sentence, kelvin_sentence>>[((i - 1) % 3) + 1]]]

\* the notebook after In[16]
NegbioInit ==
  /\ bcell = "In24"
  /\ df = first_df
  /\ sampled_df \in Sample(df, SampleSize)
  /\ collection = get_bioc_collection(sampled_df)
  /\ negbio_pred = None
  /\ runs = 1

\* In[24]: collection = pipeline(collection, ...): every document gets its infons
Lab2In24 ==
  /\ bcell = "In24"
  /\ \E infons \in [DOMAIN collection -> Infons] :
       collection' = [n \in DOMAIN collection |->
                        [collection[n] EXCEPT !.infons = infons[n]]]
  /\ bcell' = "In25"
  /\ UNCHANGED <<df, sampled_df, negbio_pred, runs>>
  /\ UNCHANGED <<textVars, permVars, impVars, bertVars>>

\* In[25]: negbio_pred = pd.DataFrame(); the loop over the documents; the replacements
Lab2In25 ==
  /\ bcell = "In25"
  /\ negbio_pred' = replace_labels(rows_of(collection, Len(collection)))
  /\ bcell' = "In26"
  /\ UNCHANGED <<df, sampled_df, collection, runs>>
  /\ UNCHANGED <<textVars, permVars, impVars, bertVars>>

----------------------------------------------------------------------------
(* The specifications: one per notebook, the other notebooks not running *)

Init == TextInit /\ PermIdle /\ ImpIdle /\ BertIdle /\ BiocIdle

Next ==
  \/ In9 \/ In10 \/ In11 \/ In12 \/ In13 \/ In14
  \/ In18 \/ In19 \/ In20 \/ In21 \/ Lab2In10

\* the text-cleaning notebooks
Spec == Init /\ [][Next]_vars

InitPermutation == TextIdle /\ PermInit /\ ImpIdle /\ BertIdle /\ BiocIdle

NextPermutation ==
  \/ W3In2 \/ W3In3 \/ W3In5 \/ W3In6 \/ W3In7
  \/ W3In8 \/ W3In9 \/ W3In10 \/ W3In11

\* the permutation notebook
SpecPermutation == InitPermutation /\ [][NextPermutation]_vars

InitImportance == TextIdle /\ PermIdle /\ ImpInit /\ BertIdle /\ BiocIdle

NextImportance == TableRow \/ ApplyFormula

\* the importance table and formula of the permutation notebook
SpecImportance == InitImportance /\ [][NextImportance]_vars

InitBert == TextIdle /\ PermIdle /\ ImpIdle /\ BertInit /\ BiocIdle

NextBert ==
  \/ Lab3In3 \/ Lab3In4 \/ Lab3In5 \/ Lab3In6 \/ Lab3In8 \/ Lab3In9 \/ Lab3In12

\* the input preparation notebook
SpecBert == InitBert /\ [][NextBert]_vars

InitCollection == TextIdle /\ PermIdle /\ ImpIdle /\ BertIdle /\ BiocInit

NextCollection == Lab2In1 \/ Lab2In3 \/ Lab2In4 \/ Lab2In14 \/ Lab2In16

\* the collections of the BioC notebook
SpecCollection == InitCollection /\ [][NextCollection]_vars

InitNegbio == TextIdle /\ PermIdle /\ ImpIdle /\ BertIdle /\ NegbioInit

NextNegbio == Lab2In24 \/ Lab2In25

\* the predictions of the BioC notebook
SpecNegbio == InitNegbio /\ [][NextNegbio]_vars

----------------------------------------------------------------------------
(* Properties of clean() *)

\* how many times the character c occurs in s
CountChar(s, c) == Cardinality({i \in DOMAIN s : s[i] = c})

\* the positions where pat occurs in s
Occurrences(s, pat) == {i \in DOMAIN s : MatchAt(s, pat, i)}

\* position i of s starts a maximal run of periods
PeriodRunStart(s, i) == s[i] = "." /\ (i = 1 \/ s[i - 1] # ".")

\* the start of the maximal run of periods that position i of s is in
RunStartOf(s, i) == CHOOSE j \in 1..i : /\ PeriodRunStart(s, j)
                                        /\ \A k \in j..i : s[k] = "."

\* the length of the maximal run of periods that starts at position i of s
RunLength(s, i) ==
  Cardinality({j \in i..Len(s) : \A k \in i..j : s[k] = "."})

\* the slashes of s with an ASCII letter immediately before and immediately after
LetterSlashes(s) ==
  {i \in DOMAIN s : /\ s[i] = "/"
                    /\ i > 1 /\ s[i - 1] \in Letters
                    /\ i < Len(s) /\ s[i + 1] \in Letters}

\* s with every character in lowercase
Lowered(s) == [k \in DOMAIN s |-> LowerChar(s[k])]

\* the slashes of s that are the slash of an occurrence of "and/or", in any letter case
AndOrSlashes(s) ==
  LET lowered == Lowered(s)
  IN  {i \in DOMAIN s : i > 3 /\ MatchAt(lowered, and_or, i - 3)}

\* C1, as stated: every maximal run of periods of the input, whatever its length,
\* contributes exactly one period to the output of clean()
C1_OnePeriodPerRun ==
  cell = "done" =>
    CountChar(cleaned, ".") = Cardinality({i \in DOMAIN raw : PeriodRunStart(raw, i)})

\* C1, amended: a maximal run of n periods of the input contributes ceil(n/2) periods
\* to the output of clean() (the periods at an even distance from the start of the
\* run), so a run of one or two contributes one and a run of three or four two
C1_HalfOfEachRun ==
  cell = "done" =>
    CountChar(cleaned, ".") =
      Cardinality({i \in DOMAIN raw :
                     raw[i] = "." /\ (i - RunStartOf(raw, i)) % 2 = 0})

C1_Witness ==
  /\ cell = "done"
  /\ \E i \in DOMAIN raw : PeriodRunStart(raw, i) /\ RunLength(raw, i) = 2
  /\ \E i \in DOMAIN raw : PeriodRunStart(raw, i) /\ RunLength(raw, i) = 3
  /\ CountChar(cleaned, ".") > Cardinality({i \in DOMAIN raw : PeriodRunStart(raw, i)})

\* C2: the output of clean() has no whitespace character but the space, no two
\* consecutive spaces, no leading and no trailing space, and is empty when the input
\* is empty or all whitespace
C2_WhitespaceNormalised ==
  cell = "done" =>
    /\ \A i \in DOMAIN cleaned : cleaned[i] \in Whitespace => cleaned[i] = " "
    /\ \A i \in 1..(Len(cleaned) - 1) : ~(cleaned[i] = " " /\ cleaned[i + 1] = " ")
    /\ cleaned # <<>> => cleaned[1] # " " /\ cleaned[Len(cleaned)] # " "
    /\ (\A i \in DOMAIN raw : raw[i] \in Whitespace) => cleaned = <<>>

C2_Witness ==
  /\ cell = "done"
  /\ raw # <<>> /\ raw[1] \in Whitespace
  /\ \E i \in DOMAIN raw : raw[i] = "\n"
  /\ \E i \in 1..(Len(raw) - 1) : raw[i] \in Whitespace /\ raw[i + 1] \in Whitespace
  /\ \E i \in 1..(Len(cleaned) - 1) : cleaned[i] = " "

\* C3: every period and every comma of the output of clean() is its last character
\* or is followed by a space, and the output has as many commas as the input
C3_SpaceAfterPunctuation ==
  cell = "done" =>
    /\ \A i \in DOMAIN cleaned :
         cleaned[i] \in {".", ","} => i = Len(cleaned) \/ cleaned[i + 1] = " "
    /\ CountChar(cleaned, ",") = CountChar(raw, ",")

C3_Witness ==
  /\ cell = "done"
  /\ \E i \in 1..(Len(raw) - 1) : raw[i] = "," /\ raw[i + 1] \in Letters
  /\ \E i \in 1..(Len(raw) - 1) : raw[i] = "." /\ raw[i + 1] \in Letters
  /\ \E i \in 1..(Len(cleaned) - 1) : cleaned[i] = "," /\ cleaned[i + 1] = " "

x_or_y == <<"x", " ", "o", "r", " ", "y">>

\* C4: clean() replaces every occurrence of "and/or", in any letter case, by "or"
\* before the slash rule runs: each occurrence loses its "and" (one a, n and d each),
\* 'x AND/OR y' cleans to 'x or y', and the output never contains "and/or"
C4_AndOrBecomesOr ==
  cell = "done" =>
    /\ Occurrences(cleaned, and_or) = {}
    /\ \A c \in {"a", "n", "d"} :
         CountChar(cleaned, c) =
           CountChar([k \in DOMAIN raw |-> LowerChar(raw[k])], c)
             - Cardinality(AndOrSlashes(raw))
    /\ raw = capitals_sentence => cleaned = x_or_y

C4_Witness ==
  /\ cell = "done"
  /\ raw = capitals_sentence
  /\ AndOrSlashes(raw) = {6}
  /\ cleaned = x_or_y

a_or_b_or_c == <<"a", " ", "o", "r", " ", "b", " ", "o", "r", " ", "c">>

\* C5, as stated: every slash with an ASCII letter on both sides is replaced by
\* ' or ' (each such slash of the lowercased input puts one more o in the output),
\* and the output has no slash with a letter on both sides
C5_EveryLetterSlashBecomesOr ==
  cell = "done" =>
    /\ LetterSlashes(cleaned) = {}
    /\ CountChar(cleaned, "o") =
         CountChar(Lowered(raw), "o") + Cardinality(LetterSlashes(Lowered(raw)))

\* C5, amended: every slash of the input with an ASCII letter on both sides that is
\* not the slash of an "and/or" is replaced by ' or ' (such a slash still has its
\* letters once the input is lowercased, and each such slash of the lowercased input
\* puts one more o in the output; "and/or" becomes "or", with no spaces added),
\* 'a/b/c' cleans to 'a or b or c', and the output has no slash with a letter on
\* both sides
C5_LetterSlashBecomesOr ==
  cell = "done" =>
    /\ LetterSlashes(cleaned) = {}
    /\ LetterSlashes(raw) \subseteq LetterSlashes(Lowered(raw))
    /\ CountChar(cleaned, "o") =
         CountChar(Lowered(raw), "o")
           + Cardinality(LetterSlashes(Lowered(raw)) \ AndOrSlashes(raw))
    /\ raw = chain_sentence => cleaned = a_or_b_or_c

C5_Witness ==
  /\ cell = "done"
  /\ raw = chain_sentence
  /\ LetterSlashes(raw) = {2, 4}
  /\ cleaned = a_or_b_or_c

\* C6: the output of clean() has no uppercase ASCII letter, and clean(s) is
\* clean(s.lower())
C6_CaseInsensitive ==
  cell = "done" =>
    /\ \A i \in DOMAIN cleaned : cleaned[i] \notin Range(UpperCase)
    /\ cleaned = clean(Lower(raw))

C6_Witness ==
  /\ cell = "done"
  /\ \E i \in DOMAIN raw : raw[i] \in Range(UpperCase)
  /\ \E i \in DOMAIN raw : raw[i] \in Range(LowerCase)
  /\ Lower(raw) # raw
  /\ cleaned = clean(Lower(raw))
  /\ cleaned # <<>>

\* C7: the step cells of the cleaning notebook compose to its clean(), and the
\* clean() of the BioC/NegBio notebook returns what the cleaning notebook's returns
C7_SameFunction ==
  /\ cell = "In21" => sentence = clean(raw)
  /\ cell = "done" => cleaned_bioc = cleaned

C7_Witness ==
  /\ cell = "done"
  /\ raw = sample_sentence
  /\ cleaned_bioc = cleaned
  /\ Len(cleaned) < Len(raw)

\* C15: re.sub("\.\.", ".", s) and s.replace('..', '.') return the same string, on
\* the sentence of In[13] and on the sentence as it was handed in
C15_SubIsReplace ==
  cell \notin {"In9", "In10", "In11", "In12", "In13"} =>
    /\ tmp1 = tmp2
    /\ ReSub(dotdot, dot, raw) = Replace(raw, dotdot, dot)

C15_Witness ==
  /\ cell = "In14"
  /\ \E i \in DOMAIN sentence : MatchAt(sentence, <<".", ".", ".">>, i)
  /\ tmp1 = tmp2
  /\ Len(tmp2) < Len(sentence)

\* the slashes of s without an ASCII letter on both sides
OtherSlashes(s) == {i \in DOMAIN s : s[i] = "/"} \ LetterSlashes(s)

\* C17, as stated: the output of clean() has as many slashes as the input has
\* slashes without an ASCII letter on both sides
C17_OtherSlashesKept ==
  cell = "done" => CountChar(cleaned, "/") = Cardinality(OtherSlashes(raw))

\* C17, amended: the output of clean() has as many slashes as the lowercased input
\* has slashes without an ASCII letter on both sides, none of them with a letter on
\* both sides; for an input of ASCII characters these are the slashes of the input
\* without an ASCII letter on both sides
C17_OtherSlashesOfLoweredKept ==
  cell = "done" =>
    /\ CountChar(cleaned, "/") = Cardinality(OtherSlashes(Lowered(raw)))
    /\ OtherSlashes(cleaned) = {i \in DOMAIN cleaned : cleaned[i] = "/"}
    /\ (\A i \in DOMAIN raw : raw[i] # kelvin_sign) =>
         OtherSlashes(Lowered(raw)) = OtherSlashes(raw)

C17_Witness ==
  /\ cell = "done"
  /\ raw = digits_sentence
  /\ Cardinality(OtherSlashes(raw)) = 3
  /\ LetterSlashes(raw) = {12}
  /\ CountChar(cleaned, "/") = 3

\* C18: clean() is idempotent: clean(clean(s)) = clean(s)
C18_Idempotent ==
  cell = "done" => clean(cleaned) = cleaned

C18_Witness ==
  /\ cell = "done"
  /\ cleaned # <<>>
  /\ cleaned # raw
  /\ \E i \in DOMAIN cleaned : cleaned[i] = "."
  /\ \E i \in DOMAIN cleaned : cleaned[i] = " "
  /\ clean(cleaned) = cleaned

----------------------------------------------------------------------------
(* Properties of the permutation notebook *)

notebook_perf_sx == <<6749, 6554, 6428>>

\* C8: the importance of a feature is the absolute difference between the baseline
\* c-index and the mean of the n >= 1 shuffled c-indices (here times n: the absolute
\* difference between n times the baseline and their sum), it is never negative, and
\* baseline 8182 with 6749, 6554, 6428 gives 1605, and 1433, 1628, 1754 one by one
C8_ImportanceIsAbsDifference ==
  icell = "done" =>
    LET n == Len(perf_sx) IN
    /\ n >= 1
    /\ importance.den = n
    /\ importance.num >= 0
    /\ importance.num \in {n * perf - Sum(perf_sx), Sum(perf_sx) - n * perf}
    /\ \A k \in 1..n :
         drops[k] >= 0 /\ drops[k] \in {perf - perf_sx[k], perf_sx[k] - perf}
    /\ (perf = 8182 /\ perf_sx = notebook_perf_sx) =>
         /\ importance.num = 1605 * importance.den
         /\ drops = <<1433, 1628, 1754>>

C8_Witness ==
  /\ icell = "done"
  /\ perf = 8182
  /\ perf_sx = notebook_perf_sx
  /\ importance = [num |-> 3 * 1605, den |-> 3]
  /\ drops = <<1433, 1628, 1754>>

\* the table of the k-th scoring
ScoredTable(k) ==
  CASE k = 1 -> X_baseline
    [] k = 2 -> X_permuted_1
    [] k = 3 -> X_permuted_2
    [] k = 4 -> X_permuted_3

\* C9: once loaded, model_X, y and X_baseline are never assigned again, and each of
\* the four printed c-indices is the c-index of that one model and that one y on the
\* table of its scoring
C9_FixedModelAndOutcomes ==
  /\ [][/\ wcell # "In2" => model_X' = model_X
        /\ wcell \notin {"In2", "In3"} => X_baseline' = X_baseline /\ y' = y]_vars
  /\ [](\A k \in 1..Len(printed) :
           printed[k] = cindex(y, predict_proba(model_X, ScoredTable(k))))

C9_Witness ==
  /\ wcell = "done"
  /\ Len(printed) = 4
  /\ printed[2] < printed[1]
  /\ printed[3] # printed[2]
  /\ printed[4] = cindex(y, predict_proba(model_X, X_permuted_3))

\* the permuted tables read so far
LoadedPermutedTables ==
  (IF wcell \in {"In7", "In8", "In9", "In10", "In11", "done"} THEN {X_permuted_1} ELSE {})
    \cup (IF wcell \in {"In9", "In10", "In11", "done"} THEN {X_permuted_2} ELSE {})
    \cup (IF wcell \in {"In10", "In11", "done"} THEN {X_permuted_3} ELSE {})

\* C10: a permuted table has the rows, the row labels and the values of the baseline
\* in every column but Age, and its Age column holds the values of the baseline's Age
\* column, each as many times
C10_OnlyAgeShuffled ==
  \A P \in LoadedPermutedTables :
    /\ DOMAIN P = DOMAIN X_baseline
    /\ \A i \in DOMAIN P :
         /\ P[i].index = X_baseline[i].index
         /\ \A c \in Columns \ {"Age"} : P[i][c] = X_baseline[i][c]
         /\ Cardinality({j \in DOMAIN P : P[j].Age = P[i].Age})
              = Cardinality({j \in DOMAIN P : X_baseline[j].Age = P[i].Age})
         /\ Cardinality({j \in DOMAIN P : P[j].Age = X_baseline[i].Age})
              = Cardinality({j \in DOMAIN P : X_baseline[j].Age = X_baseline[i].Age})

C10_Witness ==
  /\ wcell = "done"
  /\ X_permuted_1 # X_baseline
  /\ X_permuted_2 \notin {X_baseline, X_permuted_1}
  /\ X_permuted_3 # X_permuted_2

----------------------------------------------------------------------------
(* Properties of the input preparation notebook, checked under SpecBert *)

\* C11: the combined token list is [CLS] + question tokens + [SEP] + passage tokens:
\* its first element is the classification token, the separator token is at index
\* len(q_tokens) + 1 (counted from 0) between the question and the passage, the
\* question and passage tokens keep their order, its length is
\* len(q_tokens) + len(p_tokens) + 2, and for the lists of the notebook that is 48,
\* the length of the token_ids list of In[5].
C11_ClsQuestionSepPassage ==
  lcell \notin {"off", "In3", "In4"} =>
    /\ Len(tokens) = Len(q_tokens) + Len(p_tokens) + 2
    /\ tokens[1] = classification_token
    /\ tokens[Len(q_tokens) + 2] = separator_token
    /\ \A i \in DOMAIN q_tokens : tokens[1 + i] = q_tokens[i]
    /\ \A i \in DOMAIN p_tokens : tokens[Len(q_tokens) + 2 + i] = p_tokens[i]
    /\ (q_tokens = notebook_q_tokens /\ p_tokens = notebook_p_tokens) =>
         /\ Len(tokens) = 48
         /\ Len(tokens) = Len(notebook_token_ids)
         /\ lcell = "In6" /\ token_ids = notebook_token_ids => Len(tokens) = Len(token_ids)

C11_Witness ==
  /\ lcell = "In6"
  /\ q_tokens = notebook_q_tokens
  /\ p_tokens = notebook_p_tokens
  /\ token_ids = notebook_token_ids
  /\ tokens[1] = "[CLS]"
  /\ tokens[8] = "[SEP]"
  /\ tokens[9] = "The"
  /\ Len(tokens) = 48

\* C12: padding puts the zeros after the ids: for a list of L <= max_length ids the
\* padded row has exactly max_length entries, its first L entries are the ids in
\* their order and every later entry is 0; and for the ids of the notebook (L = 48,
\* max_length = 60) the padded list written out by hand in In[9] is that result, of
\* the same shape once In[12] has added the first axis.
C12_PostPadding ==
  /\ [][lcell = "In6" /\ lcell' = "In8" /\ Len(token_ids) <= max_length =>
          LET row == token_ids'.values[1]
              L == Len(token_ids)
          IN  /\ token_ids'.shape = <<1, max_length>>
              /\ Len(token_ids'.values) = 1
              /\ Len(row) = max_length
              /\ SubSeq(row, 1, L) = token_ids
              /\ \A i \in (L + 1)..max_length : row[i] = 0]_vars
  /\ [](lcell = "done" /\ token_ids = pad_sequences(<<notebook_token_ids>>, max_length) =>
          /\ Len(notebook_token_ids) = 48
          /\ max_length = 60
          /\ padded_token_ids = token_ids
          /\ shapes_equal = <<FALSE, TRUE>>)

C12_Witness ==
  /\ lcell = "done"
  /\ padded_token_ids = token_ids
  /\ SubSeq(token_ids.values[1], 1, 48) = notebook_token_ids
  /\ token_ids.values[1][48] = 119
  /\ token_ids.values[1][49] = 0
  /\ token_ids.values[1][60] = 0
  /\ Len(token_ids.values[1]) = 60

\* C13: the mask has the shape of the padded ids, one entry per padded id, and
\* mask[i] is True exactly when padded id i is not 0; for the ids of the notebook,
\* none of which is 0, those are exactly the first 48 positions.
C13_MaskIsNonZero ==
  lcell \in {"In9", "In12", "done"} =>
    /\ token_mask.shape = token_ids.shape
    /\ Len(token_mask.values) = Len(token_ids.values)
    /\ Len(token_mask.values[1]) = Len(token_ids.values[1])
    /\ Len(token_mask.values[1]) = max_length
    /\ \A i \in 1..max_length : token_mask.values[1][i] <=> token_ids.values[1][i] # 0
    /\ token_ids = pad_sequences(<<notebook_token_ids>>, max_length) =>
         /\ \A i \in DOMAIN notebook_token_ids : notebook_token_ids[i] # 0
         /\ {i \in 1..max_length : token_mask.values[1][i]} = 1..48

C13_Witness ==
  /\ lcell = "In9"
  /\ token_ids = pad_sequences(<<notebook_token_ids>>, max_length)
  /\ token_mask.values[1][1]
  /\ token_mask.values[1][48]
  /\ ~token_mask.values[1][49]
  /\ ~token_mask.values[1][60]

----------------------------------------------------------------------------
(* Properties of the BioC notebook, checked under SpecCollection *)

\* C14: get_bioc_collection(df) returns a new collection with exactly one document
\* per row of df, in the order of the rows; the document at position i (counted
\* from 0) has the id str(i), whatever the label of the row, and its text is
\* clean(report); running the call again leaves no document of an earlier call, nor
\* of the loop of In[4], in the collection.
C14_FreshCollectionPerCall ==
  bcell = "In17" =>
    /\ Len(collection) = Len(sampled_df)
    /\ \A i \in DOMAIN sampled_df :
         /\ collection[i].id = str(i - 1)
         /\ collection[i].text = clean_bioc(sampled_df[i].report)
    /\ \A i \in DOMAIN collection : \A j \in DOMAIN collection :
         i # j => collection[i].id # collection[j].id

C14_Witness ==
  /\ bcell = "In17"
  /\ runs = 2
  /\ Len(collection) = 2
  /\ sampled_df[1].label = 2
  /\ collection[1].id = <<"0">>
  /\ collection[2].id = <<"1">>
  /\ sampled_df[1].report = capitals_sentence
  /\ collection[1].text = x_or_y

----------------------------------------------------------------------------
(* Properties of the table of predictions, checked under SpecNegbio *)

\* the keys that some document of the collection has
KeysFound == UNION {DOMAIN collection[n].infons : n \in DOMAIN collection}

\* C16: negbio_pred has exactly one row per document of the processed collection, in
\* the order of the collection; its columns are the infon keys without their first 9
\* characters, that is the names of the categories; and a cell is True if and only if
\* the infon of its document and category is 'Positive': it is False for 'Negative',
\* for 'Uncertain' and when the document has no such infon.
C16_TrueIffPositive ==
  bcell = "In26" =>
    /\ Len(negbio_pred.rows) = Len(collection)
    /\ negbio_pred.columns = {SubSeq(key, 10, Len(key)) : key \in KeysFound}
    /\ \A key \in KeysFound : CheXpert \o SubSeq(key, 10, Len(key)) = key
    /\ negbio_pred.columns \subseteq CATEGORIES
    /\ \A n \in DOMAIN collection : \A category \in negbio_pred.columns :
         LET infons == collection[n].infons
             key == infon_key(category)
             cell_nc == negbio_pred.rows[n][category]
         IN  /\ cell_nc \in {True, False}
             /\ cell_nc = True <=> (key \in DOMAIN infons /\ infons[key] = "Positive")

C16_Witness ==
  /\ bcell = "In26"
  /\ Len(negbio_pred.rows) = 2
  /\ negbio_pred.columns = {Edema, Fracture}
  /\ collection[1].infons = (infon_key(Edema) :> "Positive" @@ infon_key(Fracture) :> "Uncertain")
  /\ collection[2].infons = (infon_key(Edema) :> "Negative")
  /\ negbio_pred.rows[1][Edema] = True
  /\ negbio_pred.rows[1][Fracture] = False
  /\ negbio_pred.rows[2][Edema] = False
  /\ negbio_pred.rows[2][Fracture] = False

====
